---- MODULE Spec2Model ----
(***************************************************************************)
(* Model of src/gan/gen_pyt/model/nn_utils.py: the padding-mask builder    *)
(* (length_array_to_mask_tensor), masked dot-product attention             *)
(* (dot_prod_attention) and the label-smoothing loss (LabelSmoothing).     *)
(*                                                                         *)
(* Numbers.  Tensors of integers are sequences (of sequences).  Attention  *)
(* weights are fractions <<num, den>> over the fixed-point exponentials of *)
(* ExpTable, NaN is the fraction <<0, 0>> and -inf is the sentinel NegInf. *)
(* Label-smoothing values are exact rationals <<num, den>> in lowest terms *)
(* with den > 0.  Floating-point rounding is not modelled.                 *)
(*                                                                         *)
(* Two specifications: Spec (mask builder feeding attention) and SpecLS    *)
(* (construction of a LabelSmoothing instance and concurrent forward       *)
(* calls on it).                                                           *)
(***************************************************************************)
EXTENDS Integers, Sequences, FiniteSets, TLC

VARIABLES
    \* ---- length_array_to_mask_tensor: last call
    length_array,               \* argument: list of lengths
    valid_entry_has_mask_one,   \* argument: polarity flag
    mask_status,                \* "idle" | "returned" | "ValueError"
    mask,                       \* returned ByteTensor (rows of 0/1), <<>> if none
    \* ---- dot_prod_attention: the caller's tensors and the last call
    att_status,                 \* "idle" | "ready" | "returned" | "returned_again"
    h_t,                        \* (batch_size, hidden_size)
    src_encoding,               \* (batch_size, src_sent_len, value_dim)
    src_encoding_att_linear,    \* (batch_size, src_sent_len, hidden_size)
    att_mask,                   \* (batch_size, src_sent_len) or None
    args0,                      \* the four arguments as the caller built them
    ctx_vec,                    \* returned context vectors
    att_weight,                 \* returned attention weights
    first_ret,                  \* what the first call returned
    \* ---- LabelSmoothing
    ls_status,                  \* "none" | "constructed" | "ZeroDivisionError"
    smoothing,                  \* constructor argument, a rational in (0,1)
    tgt_vocab_size,             \* constructor argument
    ignore_indices,             \* constructor argument, a list
    smoothing_value,            \* local of __init__, kept for inspection
    one_hot,                    \* registered buffer, shape (1, tgt_vocab_size)
    confidence,                 \* self.confidence
    template0,                  \* one_hot as __init__ registered it
    fwd                         \* per caller: position in forward, target, true_dist

maskVars == <<length_array, valid_entry_has_mask_one, mask_status, mask>>
attVars == <<att_status, h_t, src_encoding, src_encoding_att_linear, att_mask,
             args0, ctx_vec, att_weight, first_ret>>
lsVars == <<ls_status, smoothing, tgt_vocab_size, ignore_indices, smoothing_value,
            one_hot, confidence, template0, fwd>>
vars == <<maskVars, attVars, lsVars>>

(***************************************************************************)
(* Bounds of the model and input domains.                                  *)
(***************************************************************************)
MaxBatch == 2
MaxLen == 3

\* Values a caller may put in length_array: the positive lengths, and the
\* zero and negative values the function does not reject.
LengthVals == (-1)..MaxLen

\* All lists of at most n values from S.
SeqsUpTo(S, n) == UNION {[1..k -> S] : k \in 0..n}

\* Python's None.
None == <<>>

RECURSIVE SeqSum(_)
SeqSum(s) == IF s = <<>> THEN 0 ELSE Head(s) + SeqSum(Tail(s))

\* Python's max() over a non-empty list.
RECURSIVE Max(_)
Max(s) == IF Len(s) = 1 THEN s[1]
          ELSE LET m == Max(Tail(s)) IN IF s[1] >= m THEN s[1] ELSE m

(***************************************************************************)
(* length_array_to_mask_tensor                                             *)
(***************************************************************************)
\* The boundary a numpy slice [:k] or [k:] uses on an axis of n entries:
\* negative k counts from the end, and the result is clamped to 0..n.
SliceBound(k, n) ==
    IF k < 0 THEN (IF n + k < 0 THEN 0 ELSE n + k)
    ELSE (IF k > n THEN n ELSE k)

\* Mutant of MaskRow: the two branches of the polarity test swapped.
MaskRowSwapped(seq_len, max_len, flag) ==
    LET cut == SliceBound(seq_len, max_len)
    IN [j \in 1..max_len |->
          IF flag THEN (IF j - 1 >= cut THEN 1 ELSE 0)
                  ELSE (IF j - 1 < cut THEN 1 ELSE 0)]

\* One iteration of the loop: a row of zeros, then mask[i][:seq_len] = 1 or
\* mask[i][seq_len:] = 1.  Positions are 1-based here, 0-based in the code.
MaskRow(seq_len, max_len, flag) ==
    LET cut == SliceBound(seq_len, max_len)
    IN [j \in 1..max_len |->
          IF flag THEN (IF j - 1 < cut THEN 1 ELSE 0)
                  ELSE (IF j - 1 >= cut THEN 1 ELSE 0)]

\* The whole function.  max() of an empty list and np.zeros with a negative
\* dimension raise ValueError; nothing else is checked.  torch.ByteTensor
\* keeps the 0/1 entries, and cuda only moves the result to the device.
length_array_to_mask_tensor(lens, flag) ==
    IF Len(lens) = 0 THEN [status |-> "ValueError", mask |-> <<>>]
    ELSE LET max_len == Max(lens)
             batch_size == Len(lens)
         IN IF max_len < 0 THEN [status |-> "ValueError", mask |-> <<>>]
            ELSE [status |-> "returned",
                  mask |-> [i \in 1..batch_size |-> MaskRow(lens[i], max_len, flag)]]

(***************************************************************************)
(* dot_prod_attention                                                      *)
(***************************************************************************)
\* -float('inf')
NegInf == -1000000

\* NaN, as the fraction 0/0.
NaN == <<0, 0>>

\* exp(-d) * 10^5 for d = 0, 1, 2, ...; below the table the fixed point is 0.
ExpTable == <<100000, 36788, 13534, 4979, 1832, 674, 248, 91, 34, 12, 5, 2, 1>>

\* exp(x - m) for a finite maximum m; exp(-inf) = 0.
Exp(x, m) ==
    IF x = NegInf THEN 0
    ELSE IF m - x + 1 <= Len(ExpTable) THEN ExpTable[m - x + 1] ELSE 0

RECURSIVE Dot(_, _)
Dot(u, v) == IF u = <<>> THEN 0 ELSE u[1] * v[1] + Dot(Tail(u), Tail(v))

\* torch.bmm(src_encoding_att_linear, h_t.unsqueeze(2)).squeeze(2)
Bmm(lin, h) == [b \in 1..Len(lin) |-> [j \in 1..Len(lin[b]) |-> Dot(lin[b][j], h[b])]]

\* Mutant of MaskedFill: the fill value is 0 instead of -inf.
MaskedFillZero(scores, m) ==
    [b \in 1..Len(scores) |->
        [j \in 1..Len(scores[b]) |-> IF m[b][j] # 0 THEN 0 ELSE scores[b][j]]]

\* Mutant of MaskedFill: the polarity of the mask is read the other way round.
MaskedFillInverted(scores, m) ==
    [b \in 1..Len(scores) |->
        [j \in 1..Len(scores[b]) |-> IF m[b][j] = 0 THEN NegInf ELSE scores[b][j]]]

\* att_weight.data.masked_fill_(mask.bool(), -float('inf'))
MaskedFill(scores, m) ==
    [b \in 1..Len(scores) |->
        [j \in 1..Len(scores[b]) |-> IF m[b][j] # 0 THEN NegInf ELSE scores[b][j]]]

\* F.softmax over one row: exp(x - max) / sum.  A row of -inf only has
\* max = -inf, x - max = NaN, and every weight NaN.
SoftmaxRow(row) ==
    LET m == Max(row)
    IN IF m = NegInf THEN [j \in 1..Len(row) |-> NaN]
       ELSE LET e == [j \in 1..Len(row) |-> Exp(row[j], m)]
            IN [j \in 1..Len(row) |-> <<e[j], SeqSum(e)>>]

Softmax(scores) == [b \in 1..Len(scores) |-> SoftmaxRow(scores[b])]

\* One row of torch.bmm(att_weight.view(B, 1, L), src_encoding).squeeze(1):
\* the weighted sum of the encodings, component by component.
CtxRow(w, enc) ==
    [k \in 1..Len(enc[1]) |->
        IF w[1] = NaN THEN NaN
        ELSE <<SeqSum([j \in 1..Len(w) |-> w[j][1] * enc[j][k]]), w[1][2]>>]

\* Mutant of ArgsAfterCall: the scores are formed in place, by
\* src_encoding_att_linear.mul_(h_t.unsqueeze(1)).sum(2), which leaves the
\* caller's projected keys multiplied by the query.
ArgsAfterCallInPlace(h, enc, lin, m) ==
    <<h, enc,
      [b \in 1..Len(lin) |->
          [j \in 1..Len(lin[b]) |->
              [k \in 1..Len(lin[b][j]) |-> lin[b][j][k] * h[b][k]]]],
      m>>

\* The four arguments as a call leaves them.  unsqueeze, squeeze and view
\* return views and bmm a new tensor; the only in-place operation,
\* masked_fill_, writes the tensor bmm has just allocated.
ArgsAfterCall(h, enc, lin, m) == <<h, enc, lin, m>>

\* What a call returns: (ctx_vec, att_weight).
AttentionResult(h, enc, lin, m) ==
    LET scores == Bmm(lin, h)
        filled == IF m # None THEN MaskedFill(scores, m) ELSE scores
        w == Softmax(filled)
    IN <<[b \in 1..Len(w) |-> CtxRow(w[b], enc[b])], w>>

(***************************************************************************)
(* Spec: a batch is described by its lengths, the mask is built from them, *)
(* the caller assembles the attention arguments for that batch and calls   *)
(* dot_prod_attention, possibly twice with the same arguments.             *)
(***************************************************************************)
\* Input tensors (hidden_size = 2).  The projected keys of row b are
\* KeyCycle rotated by off + b - 1 and its query is QueryCycle rotated by
\* q + b - 1, so the rows of a batch differ; the scores lie in -2..2 and
\* include ties, ascending and descending rows.
KeyCycle == << <<2, 0>>, <<1, 0>>, <<0, 0>>, <<1, 1>> >>
QueryCycle == << <<1, 0>>, <<1, 1>>, <<-1, 0>> >>
KeyRow(off, len) ==
    [j \in 1..len |-> KeyCycle[((j - 1 + off) % Len(KeyCycle)) + 1]]
Query(q) == QueryCycle[(q % Len(QueryCycle)) + 1]

\* Encodings (value_dim = 2) of row b.
EncRow(b, len) == [j \in 1..len |-> <<j, b>>]

InitMask ==
    /\ length_array = <<>>
    /\ valid_entry_has_mask_one = FALSE
    /\ mask_status = "idle"
    /\ mask = <<>>

InitAtt ==
    /\ att_status = "idle"
    /\ h_t = <<>>
    /\ src_encoding = <<>>
    /\ src_encoding_att_linear = <<>>
    /\ att_mask = None
    /\ args0 = <<>>
    /\ ctx_vec = <<>>
    /\ att_weight = <<>>
    /\ first_ret = <<>>

\* A call of length_array_to_mask_tensor(lens, valid_entry_has_mask_one=flag).
MaskCall(lens, flag) ==
    /\ mask_status = "idle"
    /\ LET r == length_array_to_mask_tensor(lens, flag)
       IN /\ mask_status' = r.status
          /\ mask' = r.mask
    /\ length_array' = lens
    /\ valid_entry_has_mask_one' = flag
    /\ UNCHANGED <<attVars, lsVars>>

\* The caller assembles the arguments of dot_prod_attention for the batch:
\* tensors of shape (batch_size, max_len, .), and the mask or None.
PrepareArgs(use_mask, off, q) ==
    /\ mask_status = "returned"
    /\ att_status = "idle"
    /\ Len(mask[1]) >= 1
    /\ LET B == Len(mask)
           L == Len(mask[1])
           h == [b \in 1..B |-> Query(q + b - 1)]
           lin == [b \in 1..B |-> KeyRow(off + b - 1, L)]
           enc == [b \in 1..B |-> EncRow(b, L)]
           m == IF use_mask THEN mask ELSE None
       IN /\ h_t' = h
          /\ src_encoding' = enc
          /\ src_encoding_att_linear' = lin
          /\ att_mask' = m
          /\ args0' = <<h, enc, lin, m>>
    /\ att_status' = "ready"
    /\ UNCHANGED <<maskVars, ctx_vec, att_weight, first_ret, lsVars>>

\* A call of dot_prod_attention(h_t, src_encoding, src_encoding_att_linear, mask).
AttentionCall ==
    /\ att_status \in {"ready", "returned"}
    /\ LET r == AttentionResult(h_t, src_encoding, src_encoding_att_linear, att_mask)
           a == ArgsAfterCall(h_t, src_encoding, src_encoding_att_linear, att_mask)
       IN /\ ctx_vec' = r[1]
          /\ att_weight' = r[2]
          /\ first_ret' = IF att_status = "ready" THEN r ELSE first_ret
          /\ h_t' = a[1]
          /\ src_encoding' = a[2]
          /\ src_encoding_att_linear' = a[3]
          /\ att_mask' = a[4]
    /\ att_status' = IF att_status = "ready" THEN "returned" ELSE "returned_again"
    /\ UNCHANGED <<maskVars, args0, lsVars>>

(***************************************************************************)
(* LabelSmoothing                                                          *)
(***************************************************************************)
MaxVocab == 5
MaxIgnore == 2

\* Threads calling forward on the one instance.
Callers == {"t1", "t2"}

\* Leading dimensions of model_prob and target: (batch_size,) with one row.
LeadDims == {1}

\* smoothing, in (0,1): 0.4 and 0.1.
SmoothingVals == { <<2, 5>>, <<1, 10>> }

Abs(x) == IF x < 0 THEN -x ELSE x

RECURSIVE GCD(_, _)
GCD(a, b) == IF b = 0 THEN a ELSE GCD(b, a % b)

\* The rational n/d (d # 0) in lowest terms with a positive denominator.
Rat(n, d) ==
    LET g == GCD(Abs(n), Abs(d))
        sgn == IF d < 0 THEN -1 ELSE 1
    IN <<(sgn * n) \div g, (sgn * d) \div g>>

Zero == <<0, 1>>
One == <<1, 1>>
RatAdd(a, b) == Rat(a[1] * b[2] + b[1] * a[2], a[2] * b[2])
RatSub(a, b) == Rat(a[1] * b[2] - b[1] * a[2], a[2] * b[2])
RatMulInt(a, k) == Rat(a[1] * k, a[2])
RatDivInt(a, k) == Rat(a[1], a[2] * k)

RECURSIVE RatSum(_)
RatSum(s) == IF s = <<>> THEN Zero ELSE RatAdd(Head(s), RatSum(Tail(s)))

\* The position a tensor index denotes: a negative index counts from the end.
PyIndex(idx, n) == IF idx < 0 THEN idx + n ELSE idx

\* torch.zeros((V,)).fill_(smoothing_value), then one_hot[idx] = 0. for every
\* idx in ignore_indices.  Position k here is index k - 1 in the code.
TemplateRow(sv, V, ign) ==
    [k \in 1..V |->
        IF \E i \in 1..Len(ign) : PyIndex(ign[i], V) = k - 1 THEN Zero ELSE sv]

\* LabelSmoothing.__init__.  The division is Python float division, which
\* raises ZeroDivisionError on a zero divisor and accepts a negative one.
LabelSmoothingInit(s, V, ign) ==
    LET denom == V - 1 - Len(ign)
    IN IF denom = 0
       THEN [status |-> "ZeroDivisionError", smoothing_value |-> Zero,
             one_hot |-> <<>>, confidence |-> Zero]
       ELSE LET sv == RatDivInt(s, denom)
            IN [status |-> "constructed", smoothing_value |-> sv,
                one_hot |-> <<TemplateRow(sv, V, ign)>>,
                confidence |-> RatSub(One, s)]

\* self.one_hot.repeat(*dim) with dim = leading dimensions + [1]: a new
\* tensor holding one copy of the template row per leading element.
Repeat(tmpl, rows) == [r \in 1..rows |-> tmpl[1]]

\* true_dist.scatter_(-1, target.unsqueeze(-1), self.confidence)
Scatter(dist, target, conf) ==
    [r \in 1..Len(dist) |->
        [k \in 1..Len(dist[r]) |-> IF k - 1 = target[r] THEN conf ELSE dist[r][k]]]

\* Mutant of TemplateAfterScatter: true_dist is a view of the buffer (expand
\* in place of repeat), so the scatter writes the buffer's only row.
TemplateAfterScatterView(tmpl, target, conf) ==
    <<[k \in 1..Len(tmpl[1]) |->
        IF \E r \in 1..Len(target) : target[r] = k - 1 THEN conf ELSE tmpl[1][k]]>>

\* The buffer as a scatter into true_dist leaves it: repeat copied the data,
\* so the write does not reach the buffer.
TemplateAfterScatter(tmpl, target, conf) == tmpl

\* The target tensors a caller may pass; forward is entered with those whose
\* entries index the vocabulary of the instance.
Targets == UNION {[1..n -> 0..(MaxVocab - 1)] : n \in LeadDims}

IdleCall == [pc |-> "idle", target |-> <<>>, true_dist |-> <<>>]

InitLS ==
    /\ ls_status = "none"
    /\ smoothing = Zero
    /\ tgt_vocab_size = 0
    /\ ignore_indices = <<>>
    /\ smoothing_value = Zero
    /\ one_hot = <<>>
    /\ confidence = Zero
    /\ template0 = <<>>
    /\ fwd = [c \in Callers |-> IdleCall]

\* LabelSmoothing(s, V, ignore_indices=ign)
Construct(s, V, ign) ==
    /\ ls_status = "none"
    /\ LET r == LabelSmoothingInit(s, V, ign)
       IN /\ ls_status' = r.status
          /\ smoothing_value' = r.smoothing_value
          /\ one_hot' = r.one_hot
          /\ template0' = r.one_hot
          /\ confidence' = r.confidence
    /\ smoothing' = s
    /\ tgt_vocab_size' = V
    /\ ignore_indices' = ign
    /\ UNCHANGED <<maskVars, attVars, fwd>>

\* forward, first half: caller c enters with target and builds true_dist.
ForwardRepeat(c, target) ==
    /\ ls_status = "constructed"
    /\ fwd[c].pc = "idle"
    /\ \A r \in 1..Len(target) : target[r] < tgt_vocab_size
    /\ fwd' = [fwd EXCEPT ![c] = [pc |-> "repeated", target |-> target,
                                  true_dist |-> Repeat(one_hot, Len(target))]]
    /\ UNCHANGED <<maskVars, attVars, ls_status, smoothing, tgt_vocab_size,
                   ignore_indices, smoothing_value, one_hot, confidence, template0>>

\* forward, second half: the scatter; the KL divergence that follows reads
\* true_dist and changes nothing.
ForwardScatter(c) ==
    /\ fwd[c].pc = "repeated"
    /\ fwd' = [fwd EXCEPT ![c].pc = "returned",
                          ![c].true_dist = Scatter(fwd[c].true_dist, fwd[c].target, confidence)]
    /\ one_hot' = TemplateAfterScatter(one_hot, fwd[c].target, confidence)
    /\ UNCHANGED <<maskVars, attVars, ls_status, smoothing, tgt_vocab_size,
                   ignore_indices, smoothing_value, confidence, template0>>

\* The caller drops the result and may call again.
ForwardDone(c) ==
    /\ fwd[c].pc = "returned"
    /\ fwd' = [fwd EXCEPT ![c] = IdleCall]
    /\ UNCHANGED <<maskVars, attVars, ls_status, smoothing, tgt_vocab_size,
                   ignore_indices, smoothing_value, one_hot, confidence, template0>>

(***************************************************************************)
(* Specifications                                                          *)
(***************************************************************************)
Init == InitMask /\ InitAtt /\ InitLS

Next ==
    \/ \E lens \in SeqsUpTo(LengthVals, MaxBatch), flag \in BOOLEAN : MaskCall(lens, flag)
    \/ \E use_mask \in BOOLEAN, off \in 0..(Len(KeyCycle) - 1),
          q \in 0..(Len(QueryCycle) - 1) : PrepareArgs(use_mask, off, q)
    \/ AttentionCall

Spec == Init /\ [][Next]_vars

NextLS ==
    \/ \E s \in SmoothingVals, V \in 1..MaxVocab :
          \E ign \in SeqsUpTo((-1)..(V - 1), MaxIgnore) : Construct(s, V, ign)
    \/ \E c \in Callers, target \in Targets : ForwardRepeat(c, target)
    \/ \E c \in Callers : ForwardScatter(c)
    \/ \E c \in Callers : ForwardDone(c)

SpecLS == Init /\ [][NextLS]_vars

(***************************************************************************)
(* Properties of the mask builder (checked under Spec)                     *)
(***************************************************************************)
MaskCalled == mask_status # "idle"
PositiveLengths ==
    /\ Len(length_array) > 0
    /\ \A i \in 1..Len(length_array) : length_array[i] > 0
ValidMark == IF valid_entry_has_mask_one THEN 1 ELSE 0
PadMark == IF valid_entry_has_mask_one THEN 0 ELSE 1

\* C1: for a non-empty list of positive lengths and either polarity the call
\* returns a matrix of shape (len(lengths), max(lengths)); row i holds the
\* valid mark at positions 0..lengths[i]-1, exactly lengths[i] of them, and
\* the padding mark at the max(lengths)-lengths[i] positions to the right;
\* by default valid = 0 and padding = 1, and [3,1] gives [[0,0,0],[0,1,1]].
C1_MaskCorrect ==
    (MaskCalled /\ PositiveLengths) =>
        /\ mask_status = "returned"
        /\ Len(mask) = Len(length_array)
        /\ \A i \in 1..Len(mask) :
              /\ Len(mask[i]) = Max(length_array)
              /\ \A j \in 1..Len(mask[i]) :
                    mask[i][j] = IF j <= length_array[i] THEN ValidMark ELSE PadMark
              /\ Cardinality({j \in 1..Len(mask[i]) : mask[i][j] = ValidMark})
                    = length_array[i]
              /\ Cardinality({j \in 1..Len(mask[i]) : mask[i][j] = PadMark})
                    = Max(length_array) - length_array[i]
        /\ (~valid_entry_has_mask_one => ValidMark = 0 /\ PadMark = 1)
        /\ (valid_entry_has_mask_one => ValidMark = 1 /\ PadMark = 0)
        /\ (length_array = <<3, 1>> /\ ~valid_entry_has_mask_one
               => mask = << <<0, 0, 0>>, <<0, 1, 1>> >>)

C1_Witness ==
    /\ mask_status = "returned"
    /\ length_array = <<3, 1>>
    /\ ~valid_entry_has_mask_one
    /\ mask = << <<0, 0, 0>>, <<0, 1, 1>> >>

\* C6: whenever the list of lengths is empty or holds a value that is zero
\* or negative, the call fails with an error and returns no mask.  (Any
\* raised exception is accepted as the failure.)
C6_RejectsBadLengths ==
    (MaskCalled /\ ~PositiveLengths) => (mask_status # "returned" /\ mask = <<>>)

(***************************************************************************)
(* Properties of attention (checked under Spec)                            *)
(***************************************************************************)
AttReturned == att_status \in {"returned", "returned_again"}

\* The raw scores of the call, from the arguments as the caller built them.
RawScores == Bmm(args0[3], args0[1])

Masked(b, j) == args0[4] # None /\ args0[4][b][j] # 0
Unmasked(b) == {j \in 1..Len(RawScores[b]) : ~Masked(b, j)}

\* Softmax of the scores of row b over the positions in J only.
RECURSIVE SetMax(_, _)
SetMax(row, J) ==
    LET j == CHOOSE x \in J : TRUE
    IN IF J = {j} THEN row[j]
       ELSE LET m == SetMax(row, J \ {j}) IN IF row[j] >= m THEN row[j] ELSE m
RECURSIVE SetExpSum(_, _, _)
SetExpSum(row, J, m) ==
    IF J = {} THEN 0
    ELSE LET j == CHOOSE x \in J : TRUE
         IN ExpTable[m - row[j] + 1] + SetExpSum(row, J \ {j}, m)
SoftmaxOver(row, J, j) ==
    <<ExpTable[SetMax(row, J) - row[j] + 1], SetExpSum(row, J, SetMax(row, J))>>

\* A weight in thousandths, rounded.
PerMille(w) == (w[1] * 1000 + (w[2] \div 2)) \div w[2]

\* C2: in a row with an unmasked position the weight is 0 wherever the mask
\* is 1, the weights sum to 1, and the weight of an unmasked position is the
\* softmax of the raw scores over the unmasked positions only; scores
\* [2, 1, 0] with position 2 masked give [0.731, 0.269, 0].
C2_MaskedSoftmax ==
    AttReturned =>
        \A b \in 1..Len(att_weight) :
            Unmasked(b) # {} =>
                /\ \A j \in 1..Len(att_weight[b]) :
                      /\ att_weight[b][j] # NaN
                      /\ att_weight[b][j][2] > 0
                      /\ Masked(b, j) => att_weight[b][j][1] = 0
                      /\ ~Masked(b, j) =>
                            att_weight[b][j] = SoftmaxOver(RawScores[b], Unmasked(b), j)
                /\ SeqSum([j \in 1..Len(att_weight[b]) |-> att_weight[b][j][1]])
                      = att_weight[b][1][2]
                /\ (RawScores[b] = <<2, 1, 0>> /\ Unmasked(b) = {1, 2}) =>
                      [j \in 1..3 |-> PerMille(att_weight[b][j])] = <<731, 269, 0>>

C2_Witness ==
    /\ att_status = "returned"
    /\ att_mask # None
    /\ RawScores[1] = <<2, 1, 0>>
    /\ att_mask[1] = <<0, 0, 1>>
    /\ [j \in 1..3 |-> PerMille(att_weight[1][j])] = <<731, 269, 0>>

\* C8: a call whose mask suppresses every position of some row fails; it
\* never returns a context vector or attention weights for such a batch.
C8_AllMaskedRowFails ==
    ~(/\ AttReturned
      /\ args0[4] # None
      /\ \E b \in 1..Len(args0[4]) : \A j \in 1..Len(args0[4][b]) : args0[4][b][j] # 0)

\* C9: for positive lengths, the mask built with the default flag gives row i
\* weight 0 at exactly the positions j >= lengths[i] and a positive weight
\* at every j < lengths[i]; the mask built with valid_entry_has_mask_one=True
\* suppresses the valid positions instead (no positive weight there, and a
\* positive weight on the padding).
Positive(w) == w # NaN /\ w[1] > 0 /\ w[2] > 0
IsZero(w) == w # NaN /\ w[1] = 0 /\ w[2] > 0
C9_PolarityThreaded ==
    (AttReturned /\ args0[4] # None /\ PositiveLengths) =>
        \A i \in 1..Len(att_weight) : \A j \in 1..Len(att_weight[i]) :
            IF ~valid_entry_has_mask_one
            THEN /\ (j > length_array[i]) <=> IsZero(att_weight[i][j])
                 /\ (j <= length_array[i]) <=> Positive(att_weight[i][j])
            ELSE /\ (j <= length_array[i]) => ~Positive(att_weight[i][j])
                 /\ (j > length_array[i]) => Positive(att_weight[i][j])
                 /\ (j <= length_array[i] /\ length_array[i] < Max(length_array))
                        => IsZero(att_weight[i][j])

C9_Witness ==
    /\ att_status = "returned"
    /\ args0[4] # None
    /\ ~valid_entry_has_mask_one
    /\ length_array = <<1, 3>>
    /\ IsZero(att_weight[1][2]) /\ IsZero(att_weight[1][3])
    /\ Positive(att_weight[1][1])

IgnoredIndexSet ==
    {PyIndex(ignore_indices[i], tgt_vocab_size) : i \in 1..Len(ignore_indices)}

\* The pairs (caller, row) of the target distributions built so far.
Built ==
    UNION {{<<c, r>> : r \in 1..Len(fwd[c].target)} :
              c \in {x \in Callers : fwd[x].pc = "returned"}}
Dist(cr) == fwd[cr[1]].true_dist[cr[2]]
Target(cr) == fwd[cr[1]].target[cr[2]]

\* C3: when the target is not an ignored index, the target distribution
\* holds confidence = 1 - smoothing at the target, exactly 0 at every ignored
\* index and smoothing / (vocab_size - 1 - |IgnoredIndexSet|) at every other
\* index; vocab_size=5, smoothing=0.4, ignored={0}, target=2 gives
\* [0, 2/15, 3/5, 2/15, 2/15].
C3_TargetDistribution ==
    \A cr \in Built :
        Target(cr) \notin IgnoredIndexSet =>
            \A k \in 0..(tgt_vocab_size - 1) :
                Dist(cr)[k + 1] =
                    IF k = Target(cr) THEN RatSub(One, smoothing)
                    ELSE IF k \in IgnoredIndexSet THEN Zero
                    ELSE RatDivInt(smoothing,
                                   tgt_vocab_size - 1 - Cardinality(IgnoredIndexSet))

\* C4: every target distribution forward builds sums to 1, that is,
\* smoothing_value * (vocab_size - 1 - |IgnoredIndexSet|) + confidence = 1
\* for the smoothing_value the constructor wrote into the template.
C4_MassConservation ==
    \A cr \in Built :
        /\ RatSum(Dist(cr)) = One
        /\ RatAdd(RatMulInt(smoothing_value,
                            tgt_vocab_size - 1 - Cardinality(IgnoredIndexSet)),
                  confidence) = One

C7_RejectsBadDenominator ==
    /\ (ls_status # "none" /\ tgt_vocab_size - 1 - Len(ignore_indices) <= 0)
           => ls_status # "constructed"
    /\ ls_status = "constructed" => smoothing_value[1] > 0

====
